---- MODULE Spec2Model ----
(***************************************************************************)
(* Model of the typing-session engine of FreshType: the TypingTest React   *)
(* component of src/components/typing-test.tsx (first component in the     *)
(* file, lines 132-460).  One action per event handler; every action runs  *)
(* the handler and then the effects React runs after the commit (the timer *)
(* effect and the completion effect), in declaration order.                *)
(*                                                                         *)
(* Strings are sequences of one-character strings, positions are 1-based   *)
(* (JS index j is position j + 1).  Times are integers in milliseconds;    *)
(* elapsedTime is kept in milliseconds (the code divides by 1000).         *)
(*                                                                         *)
(* History variables (not program state): lastOp names the handler that    *)
(* ran last, lastTyped is the value of the change event it applied (empty  *)
(* when the last step applied no change), pausedSinceStart is the sum of   *)
(* pause intervals that ended since the start time was recorded,           *)
(* beforeAppend is the buffer length and the verdicts from before the last *)
(* append, kept while deletions follow it, scrolledFrom is the scroll      *)
(* offset the last run of the display's layout effect started from (-1     *)
(* after a change event that ran none).                                    *)
(*                                                                         *)
(* The passage display (TextDisplay, lines 48-127) keeps the scroll offset *)
(* of its container, scrollTop, in pixels; geometry is the layout the      *)
(* browser gave the container: the height of a line, the height of the     *)
(* visible area and the padding around the lines.                          *)
(*                                                                         *)
(* page is the state of the page around the component (Home of             *)
(* src/app/page.tsx): the selected word length, the bucket the choices     *)
(* list was fetched for, the loading flag, and the word lengths of the     *)
(* fetchAndSetInitialData calls in flight, in the order they were made.    *)
(* The passage the page shows is text, the prop of the component.          *)
(*                                                                         *)
(* The server actions of src/app/actions.ts over the texts table of        *)
(* src/lib/db.ts have their own state: store is the table (the number of   *)
(* rows it held at the start, which are all alike, and the rows added      *)
(* since; a row's id is its position), calls the                           *)
(* server calls in flight, returned the result of the call that finished   *)
(* last.                                                                   *)
(***************************************************************************)
EXTENDS Integers, Sequences, FiniteSets, TLC

VARIABLES text, charStates, userInput, isTyping, startTime, elapsedTime,
          isPaused, hasStarted, pausedAtRef, totalPausedMsRef, showMistakes,
          now, lastOp, lastTyped, pausedSinceStart, beforeAppend,
          store, calls, returned, scrollTop, geometry, scrolledFrom, page

vars == <<text, charStates, userInput, isTyping, startTime, elapsedTime,
          isPaused, hasStarted, pausedAtRef, totalPausedMsRef, showMistakes,
          now, lastOp, lastTyped, pausedSinceStart, beforeAppend,
          store, calls, returned, scrollTop, geometry, scrolledFrom, page>>

\* The state of the server actions, which no handler of the component
\* touches.
serverVars == <<store, calls, returned>>

\* The passage display: the scroll offset of its container and the layout
\* the browser gave it.
displayVars == <<scrollTop, geometry, scrolledFrom>>

\* ---------------------------------------------------------------- bounds
\* Largest value of the wall clock (Date.now()) the model explores.
MaxTime == 3

\* Most characters one change event appends (1 = a keystroke, more = a paste).
MaxPaste == 2

\* Longest value of the textarea the free-editing specification offers.
MaxValue == 3

\* Number of ten-second steps of the wall clock in the paced session.
MaxPaceSteps == 7

\* Number of server calls that can be in flight together.
MaxCalls == 2

\* Number of rows of the texts table beyond which no new call is started.
MaxStore == 102

\* Number of fetchAndSetInitialData calls that can be in flight together.
MaxFetches == 2

\* ------------------------------------------------------------- constants
\* beforeAppend when the last change was no append (or none followed by
\* deletions only).
NoAppend == [n |-> 0 - 1, verdicts |-> <<>>]

\* returned before any server call has finished.
NoResult == [status |-> "none", id |-> 0, content |-> <<>>, cause |-> "none"]

\* No server call was made: empty table, nothing in flight.
ServerIdle ==
    /\ store = [seeded |-> 0, added |-> <<>>]
    /\ calls = <<>>
    /\ returned = NoResult

\* The page has loaded the passages of 100 words and waits for the user.
PageIdle ==
    [wordLength |-> 100, textChoices |-> 100, isLoading |-> FALSE,
     fetches |-> <<>>]

\* null of startTime / pausedAtRef.  Date.now() is never 0, and the code
\* tests both with truthiness (!startTime, if (pausedAtRef.current)).
NULL == 0

LF == "\n"

CR == "\r"

\* The passages a session is mounted with (the text prop).
Passages == { <<"c", "a", "t">>, <<"a", LF, "b">> }

\* The keys the user types for a passage: its own characters and wrong ones.
KeysFor(t) == IF t = <<"c", "a", "t">> THEN {"c", "a", "t", "b"}
              ELSE {"a", "b", " ", LF}

\* Sequences over S of length lo..hi.
SeqsOf(S, lo, hi) == UNION { [1..k -> S] : k \in lo..hi }

Max(a, b) == IF a >= b THEN a ELSE b

\* ------------------------------------------------------- pure functions
\* Mutant of normalizeCharForCompare: the table lacks the em dash.
normalizeCharNoEmDash(char) ==
    CASE char = "U+00A0" -> " "
      [] char = LF -> " "
      [] char = CR -> " "
      [] char = "U+2019" -> "'"
      [] char = "U+2018" -> "'"
      [] char = "U+2032" -> "'"
      [] char = "U+201C" -> "\""
      [] char = "U+201D" -> "\""
      [] char = "U+2013" -> "-"
      [] char = "U+02BC" -> "'"
      [] OTHER -> char

\* normalizeCharForCompare: table lookup, identity outside the table.
\* A code point outside ASCII is written "U+xxxx".
normalizeCharForCompare(char) ==
    CASE char = "U+00A0" -> " "
      [] char = LF -> " "
      [] char = CR -> " "
      [] char = "U+2019" -> "'"
      [] char = "U+2018" -> "'"
      [] char = "U+2032" -> "'"
      [] char = "U+201C" -> "\""
      [] char = "U+201D" -> "\""
      [] char = "U+2013" -> "-"
      [] char = "U+2014" -> "-"
      [] char = "U+02BC" -> "'"
      [] OTHER -> char

\* const currentIndex = userInput.length
currentIndex == Len(userInput)

\* Array(text.length).fill("untouched")
AllUntouched(t) == [i \in 1..Len(t) |-> "untouched"]

\* s.slice(from) with a JS index from (positions from+1 .. Len(s)).
Slice(s, from) == IF from >= Len(s) THEN <<>> ELSE SubSeq(s, from + 1, Len(s))

\* The newline auto-insert: the value that is stored for a typed value.
FinalValue(typedValue) ==
    IF Len(typedValue) > Len(userInput)
    THEN LET idx == Len(userInput)
             expected == text[idx + 1]
             raw == typedValue[idx + 1]
         IN IF idx < Len(text) /\ (expected = LF \/ expected = CR)
            THEN IF raw = " "
                 THEN SubSeq(typedValue, 1, idx) \o <<LF>> \o Slice(typedValue, idx + 1)
                 ELSE IF raw # LF /\ raw # CR
                      THEN userInput \o <<" ">> \o Slice(typedValue, idx)
                      ELSE typedValue
            ELSE typedValue
    ELSE typedValue

\* Mutant of VerdictAt: a space is not accepted at a newline position.
VerdictAtNoSpace(finalValue, p) ==
    IF text[p] = LF \/ text[p] = CR
    THEN IF finalValue[p] = LF \/ finalValue[p] = CR
         THEN "correct" ELSE "incorrect"
    ELSE IF normalizeCharForCompare(finalValue[p]) = normalizeCharForCompare(text[p])
         THEN "correct" ELSE "incorrect"

\* Mutant of VerdictAt: the passage is indexed with the loop counter i
\* instead of charIdx = oldLength + i.
VerdictAtLoopIndex(finalValue, p) ==
    LET q == p - Len(userInput)
    IN IF text[q] = LF \/ text[q] = CR
       THEN IF finalValue[p] = LF \/ finalValue[p] = CR \/ finalValue[p] = " "
            THEN "correct" ELSE "incorrect"
       ELSE IF normalizeCharForCompare(finalValue[p]) = normalizeCharForCompare(text[q])
            THEN "correct" ELSE "incorrect"

\* The verdict the append loop gives position p (JS charIdx = p - 1).
VerdictAt(finalValue, p) ==
    IF text[p] = LF \/ text[p] = CR
    THEN IF finalValue[p] = LF \/ finalValue[p] = CR \/ finalValue[p] = " "
         THEN "correct" ELSE "incorrect"
    ELSE IF normalizeCharForCompare(finalValue[p]) = normalizeCharForCompare(text[p])
         THEN "correct" ELSE "incorrect"

\* Mutant of AddedStates: the loop lacks the guard charIdx < text.length, so
\* a character added past the end of the passage is compared with
\* undefined, judged incorrect and written past the end of the array.
AddedStatesUnguarded(finalValue) ==
    [p \in 1..Max(Len(charStates), Len(finalValue)) |->
        IF p > Len(userInput) /\ p <= Len(finalValue)
        THEN IF p <= Len(text) THEN VerdictAt(finalValue, p) ELSE "incorrect"
        ELSE charStates[p]]

\* newLength > oldLength: the loop over the added characters.
AddedStates(finalValue) ==
    [p \in 1..Len(charStates) |->
        IF p > Len(userInput) /\ p <= Len(finalValue) /\ p <= Len(text)
        THEN VerdictAt(finalValue, p)
        ELSE charStates[p]]

\* Mutant of RemovedStates: the reset loop starts one position late
\* (i = newLength + 1).
RemovedStatesLate(finalValue) ==
    [p \in 1..Max(Len(charStates), Len(userInput)) |->
        IF p > Len(finalValue) + 1 /\ p <= Len(userInput)
        THEN "untouched"
        ELSE IF p <= Len(charStates) THEN charStates[p] ELSE "undefined"]

\* Mutant of RemovedStates: a deletion rebuilds the array from scratch, so
\* the verdicts below the new length are lost too.
RemovedStatesWipe(finalValue) ==
    [p \in 1..Max(Len(charStates), Len(userInput)) |-> "untouched"]

\* Mutant of RemovedStates: only the position at the new length is reset,
\* as if one character were deleted at a time.
RemovedStatesOne(finalValue) ==
    [p \in 1..Max(Len(charStates), Len(userInput)) |->
        IF p = Len(finalValue) + 1 /\ p <= Len(userInput)
        THEN "untouched"
        ELSE IF p <= Len(charStates) THEN charStates[p] ELSE "undefined"]

\* newLength <= oldLength: the loop that resets positions; a write past the
\* end of a JS array extends it, leaving holes ("undefined") in between.
RemovedStates(finalValue) ==
    [p \in 1..Max(Len(charStates), Len(userInput)) |->
        IF p > Len(finalValue) /\ p <= Len(userInput)
        THEN "untouched"
        ELSE IF p <= Len(charStates) THEN charStates[p] ELSE "undefined"]

NewCharStates(finalValue) ==
    IF Len(finalValue) > Len(userInput)
    THEN AddedStates(finalValue)
    ELSE RemovedStates(finalValue)

\* ------------------------------------------------------------- effects
\* Mutant of SamplerActive: the guard of the timer effect forgets isPaused.
SamplerActiveIgnoringPause(typing, paused, start) == typing /\ start # NULL

\* The timer effect [isTyping, isPaused, startTime]: the sampler is scheduled
\* exactly while this holds.
SamplerActive(typing, paused, start) == typing /\ ~paused /\ start # NULL

\* tick(): the elapsed time a sample stores.
Sample(start, pausedMs) == now - start - pausedMs

\* The timer effect re-runs when one of its dependencies changed, and calls
\* tick() once at once when the sampler is (re)started.
TimerEffect(typing, paused, start, pausedMs, elapsed) ==
    IF <<typing, paused, start>> # <<isTyping, isPaused, startTime>>
       /\ SamplerActive(typing, paused, start)
    THEN Sample(start, pausedMs)
    ELSE elapsed

\* Mutant of CompletionEffect: the effect is missing, isTyping stays as the
\* handler left it.
CompletionEffectAbsent(typing, newInput) == typing

\* Mutant of CompletionEffect: the comparison is > instead of >=.
CompletionEffectStrict(typing, newInput) ==
    IF Len(newInput) # Len(userInput) /\ Len(newInput) > Len(text)
    THEN FALSE
    ELSE typing

\* The completion effect [currentIndex, text.length]: the value of isTyping
\* after it ran for the new buffer.
CompletionEffect(typing, newInput) ==
    IF Len(newInput) # Len(userInput) /\ Len(newInput) >= Len(text)
    THEN FALSE
    ELSE typing

\* ---------------------------------------------------- passage display
\* <Card className="relative h-44 overflow-y-auto ..."> around
\* <div className="p-4 text-base leading-relaxed ...">: a visible area of
\* 11rem, a padding of 1rem and lines of 1.625 * 1rem, at 16 pixels a rem.
CardGeometry == [lineHeight |-> 26, clientHeight |-> 176, padding |-> 16]

Min(a, b) == IF a <= b THEN a ELSE b

\* text.split('\n').map((line, lineIdx) => <div style={{display: 'block'}}>:
\* the line of the display that holds position p.
LineOf(t, p) == Cardinality({ q \in 1..(p - 1) : t[q] = LF })

LineCount(t) == LineOf(t, Len(t) + 1)  + 1

\* line.split('').map(...): every character of a line has a glyph span with
\* a ref, the line feeds between the lines have none.
HasGlyph(t, p) == t[p] # LF

\* (elRect.top - contRect.top) + container.scrollTop: the top edge of the
\* glyph at position p, measured from the top of the scrolled content.
GlyphTop(t, p, g) == g.padding + LineOf(t, p) * g.lineHeight

\* container.scrollHeight: the height of the content, at least the height
\* of the visible area.
ScrollHeight(t, g) ==
    Max(g.clientHeight, 2 * g.padding + LineCount(t) * g.lineHeight)

\* Mutant of AutoScroll: the desired offset is assigned without the clamp.
AutoScrollUnclamped(t, index, top, g) ==
    IF Len(t) = 0 THEN top
    ELSE LET p == Max(0, Min(index, Len(t) - 1)) + 1
         IN IF ~HasGlyph(t, p) THEN top
            ELSE LET lineHeight == IF g.lineHeight # 0 THEN g.lineHeight ELSE 20
                     elTop == GlyphTop(t, p, g)
                     elBottom == elTop + lineHeight
                     threshold == top + g.clientHeight - lineHeight
                     desiredTop == elTop - (g.clientHeight - 2 * lineHeight)
                 IN IF elBottom > threshold /\ desiredTop > top + 1
                    THEN desiredTop ELSE top

\* Mutant of AutoScroll: a band of two line heights, left by scrolling by
\* the overflow.
AutoScrollByOverflow(t, index, top, g) ==
    IF Len(t) = 0 THEN top
    ELSE LET p == Max(0, Min(index, Len(t) - 1)) + 1
         IN IF ~HasGlyph(t, p) THEN top
            ELSE LET lineHeight == IF g.lineHeight # 0 THEN g.lineHeight ELSE 20
                     elTop == GlyphTop(t, p, g)
                     elBottom == elTop + lineHeight
                     threshold == top + g.clientHeight - 2 * lineHeight
                     desiredTop == top + (elBottom - threshold)
                     nextScrollTop ==
                         Max(0, Min(desiredTop,
                                    ScrollHeight(t, g) - g.clientHeight))
                 IN IF elBottom > threshold /\ nextScrollTop > top + 1
                    THEN nextScrollTop ELSE top

\* The layout effect of TextDisplay, run after a commit that changed
\* _currentIndex or text: the scroll offset it leaves, from the offset top.
AutoScroll(t, index, top, g) ==
    IF Len(t) = 0 THEN top
    ELSE LET p == Max(0, Min(index, Len(t) - 1)) + 1
         IN IF ~HasGlyph(t, p) THEN top
            ELSE LET lineHeight == IF g.lineHeight # 0 THEN g.lineHeight ELSE 20
                     elTop == GlyphTop(t, p, g)
                     elBottom == elTop + lineHeight
                     threshold == top + g.clientHeight - lineHeight
                     desiredTop == elTop - (g.clientHeight - 2 * lineHeight)
                     nextScrollTop ==
                         Max(0, Min(desiredTop,
                                    ScrollHeight(t, g) - g.clientHeight))
                 IN IF elBottom > threshold /\ nextScrollTop > top + 1
                    THEN nextScrollTop ELSE top

\* ---------------------------------------------------------------- Init
\* The state after mounting the component with a passage.
Mounted(t) ==
    /\ text = t
    /\ charStates = AllUntouched(t)
    /\ userInput = <<>>
    /\ isTyping = FALSE
    /\ startTime = NULL
    /\ elapsedTime = 0
    /\ isPaused = FALSE
    /\ hasStarted = FALSE
    /\ pausedAtRef = NULL
    /\ totalPausedMsRef = 0
    /\ showMistakes = TRUE

Init ==
    /\ \E t \in Passages : Mounted(t)
    /\ now = 1
    /\ lastOp = "mount"
    /\ lastTyped = <<>>
    /\ pausedSinceStart = 0
    /\ beforeAppend = NoAppend
    /\ ServerIdle
    /\ geometry = CardGeometry
    /\ scrollTop = AutoScroll(text, 0, 0, geometry)
    /\ scrolledFrom = 0
    /\ page = PageIdle

\* ------------------------------------------------------------- actions
\* Mutant of TextareaDisabled: the textarea is disabled by a complete
\* buffer only, a pause leaves it enabled.
TextareaDisabledCompleteOnly == currentIndex >= Len(text)

\* Mutant of TextareaDisabled: the textarea is disabled by a pause only.
TextareaDisabledPauseOnly == isPaused

\* disabled={disabled || isPaused || currentIndex >= text.length}
TextareaDisabled == isPaused \/ currentIndex >= Len(text)

\* Mutant of Overflow: the comparison is > instead of >=.
OverflowStrict(typedValue) ==
    currentIndex > Len(text) /\ Len(typedValue) > Len(userInput)

\* The overflow guard that opens handleInputChange.
Overflow(typedValue) ==
    currentIndex >= Len(text) /\ Len(typedValue) > Len(userInput)

\* if (!hasStarted && typedValue.length > 0): the change starts the session.
Starts(typedValue) == ~hasStarted /\ Len(typedValue) > 0

\* Mutant of StartEpoch: the start branch tests for an empty buffer instead
\* of hasStarted, so typing into an emptied buffer stamps a new start.
StartEpochRestamped(starts) ==
    IF starts \/ Len(userInput) = 0 THEN now ELSE startTime

\* Mutant of StartEpoch: the start time is never recorded.
StartEpochKept(starts) == startTime

\* if (startTime === null) setStartTime(Date.now()), inside the start branch.
StartEpoch(starts) == IF starts /\ startTime = NULL THEN now ELSE startTime

\* handleInputChange(e) with e.target.value = typedValue.
HandleInputChange(typedValue) ==
    IF Overflow(typedValue)
    THEN /\ isTyping' = FALSE
         /\ elapsedTime' = TimerEffect(FALSE, isPaused, startTime,
                                       totalPausedMsRef, elapsedTime)
         /\ lastOp' = "rejected"
         /\ lastTyped' = <<>>
         /\ beforeAppend' = NoAppend
         /\ UNCHANGED serverVars
         /\ UNCHANGED displayVars
         /\ UNCHANGED page
         /\ UNCHANGED <<text, charStates, userInput, startTime, isPaused,
                        hasStarted, pausedAtRef, totalPausedMsRef,
                        showMistakes, now, pausedSinceStart>>
    ELSE LET starts == Starts(typedValue)
             typing == IF starts THEN TRUE ELSE isTyping
             start == StartEpoch(starts)
             finalValue == FinalValue(typedValue)
         IN /\ hasStarted' = (hasStarted \/ starts)
            /\ startTime' = start
            /\ charStates' = NewCharStates(finalValue)
            /\ userInput' = finalValue
            /\ elapsedTime' = TimerEffect(typing, isPaused, start,
                                          totalPausedMsRef, elapsedTime)
            /\ isTyping' = CompletionEffect(typing, finalValue)
            /\ lastOp' = IF Len(finalValue) > Len(userInput)
                         THEN "added" ELSE "removed"
            /\ lastTyped' = typedValue
            /\ beforeAppend' =
                 IF Len(finalValue) > Len(userInput)
                 THEN [n |-> Len(userInput), verdicts |-> charStates]
                 ELSE beforeAppend
            /\ UNCHANGED serverVars
            /\ scrollTop' = IF Len(finalValue) # Len(userInput)
                            THEN AutoScroll(text, Len(finalValue), scrollTop,
                                            geometry)
                            ELSE scrollTop
            /\ scrolledFrom' = IF Len(finalValue) # Len(userInput)
                               THEN scrollTop ELSE 0 - 1
            /\ UNCHANGED geometry
            /\ UNCHANGED page
            /\ pausedSinceStart' = IF start # startTime THEN 0
                                   ELSE pausedSinceStart
            /\ UNCHANGED <<text, isPaused, pausedAtRef, totalPausedMsRef,
                           showMistakes, now>>

\* The values a change event can carry: the buffer with up to MaxPaste
\* characters appended (typing, paste) or cut back to a shorter length
\* (backspace, deleting a selection at the end).
Edits ==
    { userInput \o s : s \in SeqsOf(KeysFor(text), 1, MaxPaste) }
    \cup { SubSeq(userInput, 1, k) : k \in 0..(Len(userInput) - 1) }

\* A change event of the textarea (the browser delivers none while the
\* textarea is disabled).
TextareaChange ==
    /\ ~TextareaDisabled
    /\ \E typedValue \in Edits : HandleInputChange(typedValue)

\* Mutant of ResumeBlocked: the comparison is > instead of >=.
ResumeBlockedStrict == currentIndex > Len(text)

\* if (currentIndex >= text.length): resumeFromPause only clears isPaused.
ResumeBlocked == currentIndex >= Len(text)

\* Mutant of ResumedPausedMs: the pause is measured from the start time.
ResumedPausedMsFromStart == totalPausedMsRef + (now - startTime)

\* totalPausedMsRef after resumeFromPause added the pause that ends now.
ResumedPausedMs ==
    IF pausedAtRef # NULL
    THEN totalPausedMsRef + (now - pausedAtRef)
    ELSE totalPausedMsRef

\* resumeFromPause()
ResumeFromPause ==
    IF ResumeBlocked
    THEN /\ isPaused' = FALSE
         /\ elapsedTime' = TimerEffect(isTyping, FALSE, startTime,
                                       totalPausedMsRef, elapsedTime)
         /\ UNCHANGED <<isTyping, pausedAtRef, totalPausedMsRef>>
    ELSE LET pausedMs == ResumedPausedMs
             typing == IF ~isTyping /\ hasStarted THEN TRUE ELSE isTyping
         IN /\ totalPausedMsRef' = pausedMs
            /\ pausedAtRef' = NULL
            /\ isPaused' = FALSE
            /\ isTyping' = typing
            /\ elapsedTime' = TimerEffect(typing, FALSE, startTime,
                                          pausedMs, elapsedTime)

\* onKeyDown with e.key === 'Escape'
Escape ==
    /\ IF ~isPaused
       THEN /\ pausedAtRef' = now
            /\ isPaused' = TRUE
            /\ UNCHANGED <<isTyping, totalPausedMsRef, elapsedTime>>
       ELSE ResumeFromPause
    /\ lastOp' = IF ~isPaused THEN "pause" ELSE "resume"
    /\ lastTyped' = <<>>
    /\ beforeAppend' = NoAppend
    /\ UNCHANGED serverVars
    /\ UNCHANGED displayVars
    /\ UNCHANGED page
    /\ pausedSinceStart' = IF isPaused /\ startTime # NULL
                           THEN pausedSinceStart + (now - pausedAtRef)
                           ELSE pausedSinceStart
    /\ UNCHANGED <<text, charStates, userInput, startTime, hasStarted,
                   showMistakes, now>>

\* Mutant of ToggleMistakes: the F8 branch lacks its return and falls into
\* the Escape branch, which pauses a session that is not paused.
ToggleMistakesFallThrough ==
    /\ showMistakes' = ~showMistakes
    /\ isPaused' = TRUE
    /\ pausedAtRef' = IF isPaused THEN pausedAtRef ELSE now
    /\ lastOp' = "f8"
    /\ lastTyped' = <<>>
    /\ beforeAppend' = NoAppend
    /\ UNCHANGED serverVars
    /\ UNCHANGED displayVars
    /\ UNCHANGED page
    /\ UNCHANGED <<text, charStates, userInput, isTyping, startTime,
                   elapsedTime, hasStarted, totalPausedMsRef, now,
                   pausedSinceStart>>

\* onKeyDown with e.key === 'F8'
ToggleMistakes ==
    /\ showMistakes' = ~showMistakes
    /\ lastOp' = "f8"
    /\ lastTyped' = <<>>
    /\ beforeAppend' = NoAppend
    /\ UNCHANGED serverVars
    /\ UNCHANGED displayVars
    /\ UNCHANGED page
    /\ UNCHANGED <<text, charStates, userInput, isTyping, startTime,
                   elapsedTime, isPaused, hasStarted, pausedAtRef,
                   totalPausedMsRef, now, pausedSinceStart>>

\* restartTest(), called by the page's Restart button (handleRestart).
RestartTest ==
    /\ isTyping' = FALSE
    /\ startTime' = NULL
    /\ elapsedTime' = 0
    /\ userInput' = <<>>
    /\ charStates' = AllUntouched(text)
    /\ lastOp' = "restart"
    /\ lastTyped' = <<>>
    /\ beforeAppend' = NoAppend
    /\ UNCHANGED serverVars
    /\ scrollTop' = IF Len(userInput) # 0
                    THEN AutoScroll(text, 0, 0, geometry) ELSE 0
    /\ scrolledFrom' = IF Len(userInput) # 0 THEN 0 ELSE scrolledFrom
    /\ UNCHANGED geometry
    /\ UNCHANGED page
    /\ pausedSinceStart' = 0
    /\ UNCHANGED <<text, isPaused, hasStarted, pausedAtRef, totalPausedMsRef,
                   showMistakes, now>>

\* tick() fired by setInterval(tick, 100) while the sampler is scheduled.
Tick ==
    /\ SamplerActive(isTyping, isPaused, startTime)
    /\ elapsedTime' = Sample(startTime, totalPausedMsRef)
    /\ lastOp' = "tick"
    /\ lastTyped' = <<>>
    /\ beforeAppend' = NoAppend
    /\ UNCHANGED serverVars
    /\ UNCHANGED displayVars
    /\ UNCHANGED page
    /\ UNCHANGED <<text, charStates, userInput, isTyping, startTime, isPaused,
                   hasStarted, pausedAtRef, totalPausedMsRef, showMistakes,
                   now, pausedSinceStart>>

\* The wall clock read by Date.now() advances.
ClockAdvance ==
    /\ now < MaxTime
    /\ now' = now + 1
    /\ lastOp' = "clock"
    /\ lastTyped' = <<>>
    /\ beforeAppend' = NoAppend
    /\ UNCHANGED serverVars
    /\ UNCHANGED displayVars
    /\ UNCHANGED page
    /\ UNCHANGED <<text, charStates, userInput, isTyping, startTime,
                   elapsedTime, isPaused, hasStarted, pausedAtRef,
                   totalPausedMsRef, showMistakes, pausedSinceStart>>

\* The page selects another passage: key={String(selectedTextId) + text}
\* changes, React unmounts the component and mounts a new one.
PassageChange ==
    /\ \E t \in Passages \ {text} :
          /\ text' = t
          /\ charStates' = AllUntouched(t)
    /\ userInput' = <<>>
    /\ isTyping' = FALSE
    /\ startTime' = NULL
    /\ elapsedTime' = 0
    /\ isPaused' = FALSE
    /\ hasStarted' = FALSE
    /\ pausedAtRef' = NULL
    /\ totalPausedMsRef' = 0
    /\ showMistakes' = TRUE
    /\ lastOp' = "mount"
    /\ lastTyped' = <<>>
    /\ beforeAppend' = NoAppend
    /\ UNCHANGED serverVars
    /\ scrollTop' = AutoScroll(text', 0, 0, geometry)
    /\ scrolledFrom' = 0
    /\ UNCHANGED geometry
    /\ UNCHANGED page
    /\ pausedSinceStart' = 0
    /\ UNCHANGED now

Next ==
    \/ TextareaChange
    \/ Escape
    \/ ToggleMistakes
    \/ RestartTest
    \/ Tick
    \/ ClockAdvance
    \/ PassageChange

Spec == Init /\ [][Next]_vars

\* A change event that reaches the handler although the textarea is rendered
\* disabled (a programmatic event, or one queued before the re-render).
DirectChange ==
    /\ TextareaDisabled
    /\ \E typedValue \in Edits : HandleInputChange(typedValue)

\* The engine driven within one instant of the wall clock.
NextDirect ==
    \/ TextareaChange
    \/ DirectChange
    \/ Escape
    \/ RestartTest
    \/ Tick
    \/ PassageChange

SpecDirect == Init /\ [][NextDirect]_vars

\* The passages and keys of the free-editing specification: a line break
\* written as newline or as carriage return.
EditPassages == { <<"a", LF, "b">>, <<"a", CR, "b">> }

EditKeys == {"a", "b", " ", LF, CR}

InitEdit ==
    /\ \E t \in EditPassages : Mounted(t)
    /\ now = 1
    /\ lastOp = "mount"
    /\ lastTyped = <<>>
    /\ pausedSinceStart = 0
    /\ beforeAppend = NoAppend
    /\ ServerIdle
    /\ geometry = CardGeometry
    /\ scrollTop = AutoScroll(text, 0, 0, geometry)
    /\ scrolledFrom = 0
    /\ page = PageIdle

\* A change event carrying any value: typing, paste, deletion, an edit in
\* the middle of the buffer, a replacement of a selection.
EditChange ==
    /\ ~TextareaDisabled
    /\ \E typedValue \in SeqsOf(EditKeys, 0, MaxValue) :
          HandleInputChange(typedValue)

\* The comparison engine under free editing, within one instant.
NextEdit ==
    \/ EditChange
    \/ RestartTest

SpecEdit == InitEdit /\ [][NextEdit]_vars

\* Passages with typographic punctuation, typed one key at a time on a
\* keyboard with the ASCII forms, Enter, and one typographic key.
PunctPassages ==
    { <<"U+2019", "U+2014", " ">>,
      <<"U+2018", "U+2032", "U+02BC">>,
      <<"U+201C", "U+201D", "U+00A0">>,
      <<"U+2013", "'", "-">> }

PunctKeys == {"'", "\"", "-", " ", LF, CR, "U+2019", "a"}

InitPunct ==
    /\ \E t \in PunctPassages : Mounted(t)
    /\ now = 1
    /\ lastOp = "mount"
    /\ lastTyped = <<>>
    /\ pausedSinceStart = 0
    /\ beforeAppend = NoAppend
    /\ ServerIdle
    /\ geometry = CardGeometry
    /\ scrollTop = AutoScroll(text, 0, 0, geometry)
    /\ scrolledFrom = 0
    /\ page = PageIdle

\* A key press, or Backspace at the end of the buffer.
PunctChange ==
    /\ ~TextareaDisabled
    /\ \/ \E k \in PunctKeys : HandleInputChange(userInput \o <<k>>)
       \/ /\ Len(userInput) > 0
          /\ HandleInputChange(SubSeq(userInput, 1, Len(userInput) - 1))

NextPunct ==
    \/ PunctChange
    \/ RestartTest

SpecPunct == InitPunct /\ [][NextPunct]_vars

\* A passage of five lines in a container a few lines tall: lengths are
\* in pixels, a line is two pixels tall.
ScrollPassage ==
    <<"a", "b", LF, "a", "b", LF, "a", "b", LF, "a", "b", LF, "a", "b">>

ScrollGeometries ==
    { [lineHeight |-> 2, clientHeight |-> c, padding |-> d] :
          c \in {4, 5, 7}, d \in {0, 1, 3} }

InitScroll ==
    /\ Mounted(ScrollPassage)
    /\ now = 1
    /\ lastOp = "mount"
    /\ lastTyped = <<>>
    /\ pausedSinceStart = 0
    /\ beforeAppend = NoAppend
    /\ ServerIdle
    /\ geometry \in ScrollGeometries
    /\ scrollTop = AutoScroll(text, 0, 0, geometry)
    /\ scrolledFrom = 0
    /\ page = PageIdle

\* The space bar pressed or up to MaxPaste spaces pasted, or the buffer cut
\* back to a shorter length.
ScrollChange ==
    /\ ~TextareaDisabled
    /\ \/ \E n \in 1..MaxPaste :
             HandleInputChange(userInput \o [i \in 1..n |-> " "])
       \/ \E k \in 0..(Len(userInput) - 1) :
             HandleInputChange(SubSeq(userInput, 1, k))

\* The user scrolls the display (overflow-y-auto): the browser keeps the
\* offset between 0 and scrollHeight - clientHeight; the scroll listener
\* copies it to the textarea.
UserScroll ==
    /\ \E top \in 0..(ScrollHeight(text, geometry) - geometry.clientHeight) :
          /\ top # scrollTop
          /\ scrollTop' = top
    /\ lastOp' = "scroll"
    /\ lastTyped' = <<>>
    /\ beforeAppend' = NoAppend
    /\ UNCHANGED serverVars
    /\ UNCHANGED <<text, charStates, userInput, isTyping, startTime,
                   elapsedTime, isPaused, hasStarted, pausedAtRef,
                   totalPausedMsRef, showMistakes, now, pausedSinceStart,
                   geometry, scrolledFrom, page>>

\* The passage display while the cursor moves, within one instant.
NextScroll ==
    \/ ScrollChange
    \/ UserScroll
    \/ RestartTest

SpecScroll == InitScroll /\ [][NextScroll]_vars

\* ------------------------------------------------------------ the page
\* const wordLengths = [100, 200, 400, 800]
wordLengths == {100, 200, 400, 800}

\* The passage fetchInitialText(length) returns: a row of the bucket, which
\* differs from the rows of the other buckets.
InitialTextOf(length) ==
    CASE length = 100 -> <<"c", "a", "t">>
      [] length = 200 -> <<"a", LF, "b">>
      [] length = 400 -> <<"a", "b">>
      [] length = 800 -> <<"b", "a">>

\* Home as first rendered: useState defaults, and the effect has called
\* fetchAndSetInitialData(wordLengths[0]).
InitPage ==
    /\ Mounted(<<>>)
    /\ now = 1
    /\ lastOp = "mount"
    /\ lastTyped = <<>>
    /\ pausedSinceStart = 0
    /\ beforeAppend = NoAppend
    /\ ServerIdle
    /\ geometry = CardGeometry
    /\ scrollTop = 0
    /\ scrolledFrom = 0
    /\ page = [wordLength |-> 100, textChoices |-> NULL, isLoading |-> TRUE,
               fetches |-> <<100>>]

\* handleWordLengthChange(value) followed by the effect on [wordLength]:
\* fetchAndSetInitialData(wordLength) up to its await.
handleWordLengthChange(value) ==
    /\ value # page.wordLength
    /\ Len(page.fetches) < MaxFetches
    /\ page' = [page EXCEPT !.wordLength = value,
                            !.isLoading = TRUE,
                            !.fetches = Append(@, value)]
    /\ lastOp' = "select"
    /\ lastTyped' = <<>>
    /\ beforeAppend' = NoAppend
    /\ UNCHANGED serverVars
    /\ UNCHANGED displayVars
    /\ UNCHANGED <<text, charStates, userInput, isTyping, startTime,
                   elapsedTime, isPaused, hasStarted, pausedAtRef,
                   totalPausedMsRef, showMistakes, now, pausedSinceStart>>

\* The Promise.all of the i-th call in flight resolves: the rest of
\* fetchAndSetInitialData runs, and the component is mounted with the
\* passage (it is not rendered while isLoading, and its key holds the text).
InitialDataSettles(i) ==
    /\ i \in 1..Len(page.fetches)
    /\ LET length == page.fetches[i]
       IN /\ text' = InitialTextOf(length)
          /\ charStates' = AllUntouched(InitialTextOf(length))
          /\ scrollTop' = AutoScroll(InitialTextOf(length), 0, 0, geometry)
          /\ page' = [page EXCEPT
                        !.textChoices = length,
                        !.isLoading = FALSE,
                        !.fetches = SubSeq(@, 1, i - 1)
                                    \o SubSeq(@, i + 1, Len(@))]
    /\ userInput' = <<>>
    /\ isTyping' = FALSE
    /\ startTime' = NULL
    /\ elapsedTime' = 0
    /\ isPaused' = FALSE
    /\ hasStarted' = FALSE
    /\ pausedAtRef' = NULL
    /\ totalPausedMsRef' = 0
    /\ showMistakes' = TRUE
    /\ lastOp' = "fetched"
    /\ lastTyped' = <<>>
    /\ beforeAppend' = NoAppend
    /\ pausedSinceStart' = 0
    /\ scrolledFrom' = 0
    /\ UNCHANGED serverVars
    /\ UNCHANGED <<geometry, now>>

\* The page while the user changes the word length and the fetches settle
\* in any order.
NextPage ==
    \/ \E value \in wordLengths : handleWordLengthChange(value)
    \/ \E i \in 1..MaxFetches : InitialDataSettles(i)

SpecPage == InitPage /\ [][NextPage]_vars

\* A session at typing pace: a passage of fifty characters, typed or pasted
\* ten characters at a time, right or wrong, while the wall clock advances
\* in steps of ten seconds.
PacePassage == [i \in 1..50 |-> "a"]

PacePastes == { [i \in 1..10 |-> "a"], [i \in 1..10 |-> "b"] }

PaceStep == 10 * 1000

InitPace ==
    /\ Mounted(PacePassage)
    /\ now = 1
    /\ lastOp = "mount"
    /\ lastTyped = <<>>
    /\ pausedSinceStart = 0
    /\ beforeAppend = NoAppend
    /\ ServerIdle
    /\ geometry = CardGeometry
    /\ scrollTop = AutoScroll(text, 0, 0, geometry)
    /\ scrolledFrom = 0
    /\ page = PageIdle

PaceChange ==
    /\ ~TextareaDisabled
    /\ \E s \in PacePastes : HandleInputChange(userInput \o s)

PaceClock ==
    /\ now + PaceStep <= 1 + MaxPaceSteps * PaceStep
    /\ now' = now + PaceStep
    /\ lastOp' = "clock"
    /\ lastTyped' = <<>>
    /\ beforeAppend' = NoAppend
    /\ UNCHANGED serverVars
    /\ UNCHANGED displayVars
    /\ UNCHANGED page
    /\ UNCHANGED <<text, charStates, userInput, isTyping, startTime,
                   elapsedTime, isPaused, hasStarted, pausedAtRef,
                   totalPausedMsRef, showMistakes, pausedSinceStart>>

NextPace ==
    \/ PaceChange
    \/ PaceClock
    \/ Tick
    \/ RestartTest

SpecPace == InitPace /\ [][NextPace]_vars

\* --------------------------------------------------- server actions
\* The fixed text of actions.ts, line 10.
fallbackText ==
    <<"T", "h", "e", " ", "q", "u", "i", "c", "k", " ", "b", "r", "o", "w",
      "n", " ", "f", "o", "x", " ", "j", "u", "m", "p", "s", " ", "o", "v",
      "e", "r", " ", "t", "h", "e", " ", "l", "a", "z", "y", " ", "d", "o",
      "g", ".", " ", "T", "h", "e", " ", "f", "i", "v", "e", " ", "b", "o",
      "x", "i", "n", "g", " ", "w", "i", "z", "a", "r", "d", "s", " ", "j",
      "u", "m", "p", " ", "q", "u", "i", "c", "k", "l", "y", ".", " ", "P",
      "a", "c", "k", " ", "m", "y", " ", "b", "o", "x", " ", "w", "i", "t",
      "h", " ", "f", "i", "v", "e", " ", "d", "o", "z", "e", "n", " ", "l",
      "i", "q", "u", "o", "r", " ", "j", "u", "g", "s", ".", " ", "H", "o",
      "w", " ", "v", "e", "x", "i", "n", "g", "l", "y", " ", "q", "u", "i",
      "c", "k", " ", "d", "a", "f", "t", " ", "z", "e", "b", "r", "a", "s",
      " ", "j", "u", "m", "p", ".", " ", "W", "h", "e", "n", " ", "a", " ",
      "u", "s", "e", "r", " ", "g", "e", "n", "e", "r", "a", "t", "e", "s",
      " ", "a", " ", "n", "e", "w", " ", "t", "e", "x", "t", " ", "u", "s",
      "i", "n", "g", " ", "t", "h", "e", " ", "A", "I", ",", " ", "t", "h",
      "e", " ", "a", "p", "p", " ", "c", "a", "l", "c", "u", "l", "a", "t",
      "e", "s", " ", "t", "h", "e", " ", "t", "e", "x", "t", "'", "s", " ",
      "w", "o", "r", "d", " ", "l", "e", "n", "g", "t", "h", " ", "c", "a",
      "t", "e", "g", "o", "r", "y", ".", " ", "I", "n", " ", "t", "h", "e",
      " ", "b", "a", "c", "k", "g", "r", "o", "u", "n", "d", ",", " ", "t",
      "h", "e", " ", "a", "p", "p", " ", "p", "e", "r", "f", "o", "r", "m",
      "s", " ", "a", " ", "s", "i", "l", "e", "n", "t", " ", "c", "h", "e",
      "c", "k", " ", "o", "n", " ", "t", "h", "e", " ", "d", "a", "t", "a",
      "b", "a", "s", "e", ".", " ", "I", "f", " ", "t", "h", "e", " ", "c",
      "o", "u", "n", "t", " ", "i", "s", " ", "l", "e", "s", "s", " ", "t",
      "h", "a", "n", " ", "o", "n", "e", " ", "h", "u", "n", "d", "r", "e",
      "d", ",", " ", "t", "h", "e", " ", "n", "e", "w", " ", "t", "e", "x",
      "t", " ", "i", "s", " ", "s", "a", "v", "e", "d", " ", "t", "o", " ",
      "t", "h", "e", " ", "d", "a", "t", "a", "b", "a", "s", "e", ".", " ",
      "I", "f", " ", "t", "h", "e", " ", "c", "o", "u", "n", "t", " ", "i",
      "s", " ", "o", "n", "e", " ", "h", "u", "n", "d", "r", "e", "d", " ",
      "o", "r", " ", "m", "o", "r", "e", ",", " ", "t", "h", "e", " ", "a",
      "p", "p", " ", "d", "o", "e", "s", " ", "n", "o", "t", " ", "s", "a",
      "v", "e", " ", "t", "h", "e", " ", "t", "e", "x", "t", " ", "t", "o",
      " ", "t", "h", "e", " ", "d", "a", "t", "a", "b", "a", "s", "e", " ",
      "a", "n", "d", " ", "d", "i", "s", "p", "l", "a", "y", "s", " ", "n",
      "o", " ", "w", "a", "r", "n", "i", "n", "g", " ", "o", "r", " ", "m",
      "e", "s", "s", "a", "g", "e", ".", " ", "R", "e", "g", "a", "r", "d",
      "l", "e", "s", "s", " ", "o", "f", " ", "t", "h", "e", " ", "s", "t",
      "o", "r", "a", "g", "e", " ", "s", "t", "a", "t", "u", "s", ",", " ",
      "t", "h", "e", " ", "n", "e", "w", "l", "y", " ", "g", "e", "n", "e",
      "r", "a", "t", "e", "d", " ", "t", "e", "x", "t", " ", "i", "s", " ",
      "i", "m", "m", "e", "d", "i", "a", "t", "e", "l", "y", " ", "l", "o",
      "a", "d", "e", "d", " ", "i", "n", "t", "o", " ", "t", "h", "e", " ",
      "d", "i", "s", "p", "l", "a", "y", " ", "w", "i", "n", "d", "o", "w",
      ".">>

\* const allowed = [100, 200, 400, 800]
allowed == {100, 200, 400, 800}

\* Word lengths a caller passes: two buckets and one that is not allowed.
WordLengths == {100, 200, 150}

Filled(ch, n) == [i \in 1..n |-> ch]

\* What the generation flow can hand back as textContent: nothing, text
\* around the length threshold, blank text, short text padded with blanks.
GenContents ==
    { <<>>, Filled("x", 19), Filled("y", 20),
      Filled(" ", 25), <<" ">> \o Filled("x", 19) \o Filled(" ", 5) }

Whitespace == {" ", LF, CR}

\* content.trim().length
TrimmedLength(content) ==
    LET kept == { i \in 1..Len(content) : content[i] \notin Whitespace }
    IN IF kept = {} THEN 0
       ELSE (CHOOSE i \in kept : \A j \in (i + 1)..Len(content) : j \notin kept)
            - (CHOOSE i \in kept : \A j \in 1..(i - 1) : j \notin kept) + 1

\* Mutant of TooShort: the length is taken without trim().
TooShortUntrimmed(content) == Len(content) = 0 \/ Len(content) < 20

\* !result.textContent || result.textContent.trim().length < 20
TooShort(content) == Len(content) = 0 \/ TrimmedLength(content) < 20

\* A row of the texts table; its id is its position (SERIAL, no deletes).
Row(content, wordLength) == [content |-> content, wordLength |-> wordLength]

\* The rows the table holds at the start: generated texts of bucket 100.
SeedRow == Row(Filled("x", 20), 100)

\* Number of rows of the table, and the row with id i.
StoreLen == store.seeded + Len(store.added)

RowAt(i) == IF i <= store.seeded THEN SeedRow
            ELSE store.added[i - store.seeded]

\* SELECT COUNT(*) FROM texts WHERE wordLength = ...
getTextCountByWordLength(wordLength) ==
    (IF SeedRow.wordLength = wordLength THEN store.seeded ELSE 0)
    + Cardinality({ i \in 1..Len(store.added) :
                      store.added[i].wordLength = wordLength })

\* The tables a run starts from: bucket 100 one short of full, or full;
\* bucket 200 empty.
InitialStores == { [seeded |-> n, added |-> <<>>] : n \in {99, 100} }

IdleCall == [pc |-> "idle", kind |-> "none", wordLength |-> 0, id |-> 0,
             content |-> <<>>]

\* The results a call hands to the page; cause records which path led to
\* it.
Value(id, content, cause) ==
    [status |-> "value", id |-> id, content |-> content, cause |-> cause]

Fallback(cause) == Value(0 - 1, fallbackText, cause)

Thrown(cause) ==
    [status |-> "error", id |-> 0, content |-> <<>>, cause |-> cause]

\* Every variable of the typing component.
engineVars == <<text, charStates, userInput, isTyping, startTime, elapsedTime,
                isPaused, hasStarted, pausedAtRef, totalPausedMsRef,
                showMistakes, now, lastOp, lastTyped, pausedSinceStart,
                beforeAppend, scrollTop, geometry, scrolledFrom>>

\* The call c moves on to its next await.
Await(c, call) ==
    /\ calls' = [calls EXCEPT ![c] = call]
    /\ UNCHANGED <<store, returned>>
    /\ UNCHANGED engineVars
    /\ UNCHANGED page

\* The call c returns (or throws) result and leaves the table as it is.
Return(c, result) ==
    /\ calls' = [calls EXCEPT ![c] = IdleCall]
    /\ returned' = result
    /\ UNCHANGED store
    /\ UNCHANGED engineVars
    /\ UNCHANGED page

InitServer ==
    /\ Mounted(<<"c", "a", "t">>)
    /\ now = 1
    /\ lastOp = "mount"
    /\ lastTyped = <<>>
    /\ pausedSinceStart = 0
    /\ beforeAppend = NoAppend
    /\ geometry = CardGeometry
    /\ scrollTop = AutoScroll(text, 0, 0, geometry)
    /\ scrolledFrom = 0
    /\ page = PageIdle
    /\ store \in InitialStores
    /\ calls = [c \in 1..MaxCalls |-> IdleCall]
    /\ returned = NoResult

\* getNewText(options) up to its first await: the key check of lines 32-35
\* throws INVALID_API_KEY for a malformed key, which the catch rethrows.
getNewText(c, wordLength, apiKey) ==
    /\ calls[c].pc = "idle"
    /\ StoreLen < MaxStore
    /\ IF apiKey = "malformed"
       THEN Return(c, Thrown("INVALID_API_KEY"))
       ELSE Await(c, [IdleCall EXCEPT !.pc = "generate",
                                      !.kind = "getNewText",
                                      !.wordLength = wordLength])

\* await generateTypingTextWithKey(...) settles: with a text, with no
\* output (reading result.textContent then throws), with an error about the
\* API key, or with any other error.
GenerateSettles(c) ==
    /\ calls[c].pc = "generate"
    /\ \/ \E content \in GenContents :
            IF TooShort(content)
            THEN Return(c, Fallback("shortGeneration"))
            ELSE Await(c, [calls[c] EXCEPT !.pc = "count",
                                           !.content = content])
       \/ Return(c, Fallback("generationFailed"))
       \/ Return(c, Thrown("INVALID_API_KEY"))

\* await getTextCountByWordLength(options.wordLength) settles; a database
\* error lands in the catch.
CountSettles(c) ==
    /\ calls[c].pc = "count"
    /\ \/ IF getTextCountByWordLength(calls[c].wordLength) < 100
          THEN Await(c, [calls[c] EXCEPT !.pc = "insert"])
          ELSE Return(c, Value(0 - 1, calls[c].content, "generated"))
       \/ Return(c, Fallback("storeFailed"))

\* await addText(...) settles: the row is inserted and its id returned, or
\* the insert fails (always so for a word length the table's check
\* constraint refuses) and the catch returns the fallback.
AddTextSettles(c) ==
    /\ calls[c].pc = "insert"
    /\ \/ /\ calls[c].wordLength \in allowed
          /\ store' = [store EXCEPT !.added =
                          Append(@, Row(calls[c].content, calls[c].wordLength))]
          /\ returned' = Value(StoreLen + 1, calls[c].content, "generated")
          /\ calls' = [calls EXCEPT ![c] = IdleCall]
          /\ UNCHANGED engineVars
          /\ UNCHANGED page
       \/ Return(c, Fallback("storeFailed"))

\* Ids a caller asks for: a stored one and one that is not stored.
TextIds == {1, 500}

\* fetchTextById(id) up to its await.
fetchTextById(c, id) ==
    /\ calls[c].pc = "idle"
    /\ Await(c, [IdleCall EXCEPT !.pc = "getText", !.kind = "fetchTextById",
                                 !.id = id])

\* await getText(id) settles: a row, no row, or a database error, which
\* nothing catches.
GetTextSettles(c) ==
    /\ calls[c].pc = "getText"
    /\ \/ IF calls[c].id \in 1..StoreLen
          THEN Return(c, Value(calls[c].id, RowAt(calls[c].id).content,
                               "stored"))
          ELSE Return(c, Fallback("missingRecord"))
       \/ Return(c, Thrown("storeFailed"))

\* fetchInitialText(wordLength) up to its await; a word length that is not
\* allowed becomes allowed[0].
fetchInitialText(c, wordLength) ==
    /\ calls[c].pc = "idle"
    /\ StoreLen < MaxStore
    /\ Await(c, [IdleCall EXCEPT !.pc = "getRandom",
                                 !.kind = "fetchInitialText",
                                 !.wordLength = IF wordLength \in allowed
                                                THEN wordLength ELSE 100])

\* await getRandomTextByWordLength(wl) settles: some row of the bucket; no
\* row, and the call goes on as getNewText({wordLength: wl}) without a key;
\* or a database error, which nothing catches.
GetRandomSettles(c) ==
    /\ calls[c].pc = "getRandom"
    /\ LET wl == calls[c].wordLength
           bucket == (IF SeedRow.wordLength = wl THEN 1..store.seeded ELSE {})
                     \cup { store.seeded + i : i \in
                              { k \in 1..Len(store.added) :
                                  store.added[k].wordLength = wl } }
           \* ORDER BY RANDOM() LIMIT 1: the model draws the first or the
           \* last row of the bucket.
           drawn == { CHOOSE i \in bucket : \A j \in 1..(i - 1) : j \notin bucket,
                      CHOOSE i \in bucket :
                          \A j \in (i + 1)..StoreLen : j \notin bucket }
       IN \/ /\ bucket # {}
             /\ \E i \in drawn : Return(c, Value(i, RowAt(i).content, "stored"))
          \/ /\ bucket = {}
             /\ Await(c, [calls[c] EXCEPT !.pc = "generate"])
          \/ Return(c, Thrown("storeFailed"))

NextServer ==
    \E c \in 1..MaxCalls :
        \/ \E wordLength \in WordLengths, apiKey \in {"none", "clean", "malformed"} :
              getNewText(c, wordLength, apiKey)
        \/ GenerateSettles(c)
        \/ CountSettles(c)
        \/ AddTextSettles(c)
        \/ \E id \in TextIds : fetchTextById(c, id)
        \/ GetTextSettles(c)
        \/ \E wordLength \in WordLengths : fetchInitialText(c, wordLength)
        \/ GetRandomSettles(c)

SpecServer == InitServer /\ [][NextServer]_vars

\* --------------------------------------------------------------- metrics
\* charStates.slice(0, currentIndex).filter(s => s === verdict).length
CountTyped(verdict) ==
    Cardinality({ p \in 1..Len(charStates) :
                    p <= currentIndex /\ charStates[p] = verdict })

\* Math.round of the fraction num / den (den > 0, num >= 0).
RoundDiv(num, den) == (2 * num + den) \div (2 * den)

\* Mutant of Accuracy: the percentage is cut off (Math.floor), not rounded.
AccuracyFloor ==
    LET correctChars == CountTyped("correct")
        totalKeystrokes == correctChars + CountTyped("incorrect")
    IN IF elapsedTime = 0 THEN 100
       ELSE IF totalKeystrokes > 0
            THEN Max(0, (correctChars * 100) \div totalKeystrokes)
            ELSE 100

\* accuracy of the metrics memo: 100 while elapsedTime is 0 or nothing is
\* typed, else round(correctChars / totalKeystrokes * 100), floored at 0.
Accuracy ==
    LET correctChars == CountTyped("correct")
        totalKeystrokes == correctChars + CountTyped("incorrect")
    IN IF elapsedTime = 0 THEN 100
       ELSE IF totalKeystrokes > 0
            THEN Max(0, RoundDiv(correctChars * 100, totalKeystrokes))
            ELSE 100

\* elapsedTime is kept in milliseconds; the memo's minutesElapsed is
\* elapsedTime / MsPerMinute.
MsPerMinute == 60 * 1000

\* Mutant of Wpm: net speed, the wrong characters are subtracted.
WpmNet ==
    LET correctChars == CountTyped("correct")
        errorKeystrokes == CountTyped("incorrect")
    IN IF elapsedTime = 0 THEN 0
       ELSE IF elapsedTime > 0
            THEN Max(0, RoundDiv(Max(0, correctChars - errorKeystrokes)
                                 * MsPerMinute, 5 * elapsedTime))
            ELSE 0

\* wpm of the metrics memo: 0 while elapsedTime is 0, else
\* max(0, round((correctChars / 5) / minutesElapsed)), and 0 when
\* minutesElapsed is not positive.
Wpm ==
    LET correctChars == CountTyped("correct")
    IN IF elapsedTime = 0 THEN 0
       ELSE IF elapsedTime > 0
            THEN Max(0, RoundDiv(correctChars * MsPerMinute, 5 * elapsedTime))
            ELSE 0

\* Mutant of Errors: the early return for elapsedTime === 0 is missing.
ErrorsUnguarded ==
    LET errorKeystrokes == CountTyped("incorrect")
        totalKeystrokes == CountTyped("correct") + errorKeystrokes
    IN IF totalKeystrokes > 0
       THEN Max(0, RoundDiv(errorKeystrokes * 100, totalKeystrokes))
       ELSE 0

\* errors of the metrics memo: 0 while elapsedTime is 0 or nothing is typed,
\* else round(errorKeystrokes / totalKeystrokes * 100).
Errors ==
    LET errorKeystrokes == CountTyped("incorrect")
        totalKeystrokes == CountTyped("correct") + errorKeystrokes
    IN IF elapsedTime = 0 THEN 0
       ELSE IF totalKeystrokes > 0
            THEN Max(0, RoundDiv(errorKeystrokes * 100, totalKeystrokes))
            ELSE 0

\* The CPM tile: Math.round(correct / Math.max(1, elapsedTime / 60)).
Cpm ==
    LET correctChars == CountTyped("correct")
    IN IF elapsedTime > MsPerMinute
       THEN RoundDiv(correctChars * MsPerMinute, elapsedTime)
       ELSE correctChars

\* ------------------------------------------------------- session phases
\* The code keeps no phase field; the phases of the Timing Controller are
\* these conditions on its flags.
Idle == ~hasStarted

Running == SamplerActive(isTyping, isPaused, startTime)

Paused == isPaused

Finished == currentIndex >= Len(text) /\ ~isTyping

TypeOK ==
    /\ text \in Passages
    /\ userInput \in Seq(KeysFor(text))
    /\ isTyping \in BOOLEAN /\ isPaused \in BOOLEAN /\ hasStarted \in BOOLEAN
    /\ startTime \in 0..MaxTime /\ pausedAtRef \in 0..MaxTime
    /\ totalPausedMsRef \in 0..MaxTime
    /\ elapsedTime \in (0 - MaxTime)..MaxTime
    /\ now \in 1..MaxTime

\* ================================================================ claims

\* C1: in every reachable state, for every passage position, the verdict is
\* correct or incorrect exactly when the position is below the cursor, and
\* untouched exactly when it is at or after the cursor.
C1_VerdictsFollowCursor ==
    /\ Len(charStates) >= Len(text)
    /\ \A p \in 1..Len(text) :
          /\ charStates[p] \in {"correct", "incorrect"} <=> p <= currentIndex
          /\ charStates[p] = "untouched" <=> p > currentIndex

\* A deletion has left a partly typed buffer.
C1_Witness ==
    lastOp = "removed" /\ currentIndex > 0 /\ currentIndex < Len(text)

\* C2: the stored buffer is never longer than the passage.
C2_BufferWithinPassage == currentIndex <= Len(text)

\* C3: when a change makes the buffer longer, every new position inside the
\* passage that is not a newline position is correct iff the normalized
\* typed character equals the normalized passage character, and incorrect
\* otherwise; the verdicts below the old length are unchanged.
C3_AppendVerdicts ==
    [][(lastOp' \in {"added", "removed"} /\ Len(userInput') > Len(userInput))
       => \A p \in 1..Len(text) :
             /\ (p > Len(userInput) /\ p <= Len(userInput')
                 /\ text[p] # LF /\ text[p] # CR)
                => charStates'[p] =
                     IF normalizeCharForCompare(userInput'[p])
                        = normalizeCharForCompare(text[p])
                     THEN "correct" ELSE "incorrect"
             /\ p <= Len(userInput) => charStates'[p] = charStates[p]]_vars

\* "b" was appended to "c" for the passage "cat".
C3_Witness ==
    /\ lastOp = "added"
    /\ text = <<"c", "a", "t">>
    /\ userInput = <<"c", "b">>
    /\ charStates = <<"correct", "incorrect", "untouched">>

\* C4: when a change makes the buffer shorter, the positions from the new
\* length to the old length - 1 become untouched, the buffer is the old one
\* cut to the new length, and the verdicts below the new length are as before.
C4_DeletionFrame ==
    [][(lastOp' \in {"added", "removed"} /\ Len(userInput') < Len(userInput))
       => /\ userInput' = SubSeq(userInput, 1, Len(userInput'))
          /\ Len(charStates') = Len(charStates)
          /\ \A p \in 1..Len(text) :
                /\ (p > Len(userInput') /\ p <= Len(userInput))
                   => charStates'[p] = "untouched"
                /\ p <= Len(userInput') => charStates'[p] = charStates[p]]_vars

\* Passage "cat": "ca" was typed and one backspace left "c".
C4_Witness ==
    /\ lastOp = "removed"
    /\ text = <<"c", "a", "t">>
    /\ userInput = <<"c">>
    /\ charStates = <<"correct", "untouched", "untouched">>

\* C5: with the cursor at or past the passage end, a change that tries to
\* extend the buffer leaves the buffer and all verdicts as they were, and
\* the session is finished afterwards with no sampler scheduled.
C5_OverflowIgnored ==
    [][(currentIndex >= Len(text) /\ lastOp' \in {"rejected", "added"})
       => /\ userInput' = userInput
          /\ charStates' = charStates
          /\ Finished'
          /\ ~Running']_vars

\* An extension of the complete buffer "cat" was refused.
C5_Witness ==
    /\ lastOp = "rejected"
    /\ text = <<"c", "a", "t">>
    /\ userInput = <<"c", "a", "t">>

\* C6: before the first character the start time is null and the elapsed
\* time is 0; the first change that adds a character records the start time
\* as now and the session runs (or is already finished when that change
\* completed the passage).
C6_FirstCharStarts ==
    /\ [](Idle => (startTime = NULL /\ elapsedTime = 0 /\ userInput = <<>>))
    /\ [][(Idle /\ lastOp' \in {"added", "removed"} /\ Len(userInput') > 0)
          => /\ ~Idle'
             /\ startTime' = now
             /\ IF currentIndex' < Len(text) THEN Running' ELSE Finished']_vars

\* The first character was just typed, after the clock had advanced.
C6_Witness ==
    /\ lastOp = "added"
    /\ currentIndex = 1
    /\ now > 1
    /\ startTime = now
    /\ Running

\* C7: a restart leaves the buffer empty, all verdicts untouched, elapsed 0,
\* start time null, paused total 0, pause start null, not paused, and no
\* sampler scheduled.
C7_RestartResetsAll ==
    lastOp = "restart"
    => /\ userInput = <<>>
       /\ charStates = AllUntouched(text)
       /\ elapsedTime = 0
       /\ startTime = NULL
       /\ totalPausedMsRef = 0
       /\ pausedAtRef = NULL
       /\ ~isPaused
       /\ ~Running
       /\ ~Finished

\* C8: in a session that was started and then restarted, the next first
\* character records a new start time and the session runs again.
C8_RestartedSessionStarts ==
    [][(hasStarted /\ startTime = NULL /\ userInput = <<>>
        /\ lastOp' \in {"added", "removed"} /\ Len(userInput') > 0)
       => /\ startTime' = now
          /\ IF currentIndex' < Len(text) THEN Running' ELSE Finished']_vars

\* C9: whenever the cursor is at or past the passage end the session is
\* finished and no sampler is scheduled.
C9_CompleteIsFinished ==
    currentIndex >= Len(text) => (Finished /\ ~Running)

\* Passage "cat" typed in full: all verdicts correct, cursor 3, finished,
\* accuracy 100 over a non-zero elapsed time.
C9_Witness ==
    /\ lastOp = "added"
    /\ text = <<"c", "a", "t">>
    /\ userInput = <<"c", "a", "t">>
    /\ charStates = <<"correct", "correct", "correct">>
    /\ hasStarted
    /\ Finished
    /\ elapsedTime > 0
    /\ Accuracy = 100

C11_PauseWhenIdleOrFinishedIsNoOp ==
    [][((Idle \/ Finished) /\ ~isPaused /\ lastOp' \in {"pause", "resume"})
       => /\ ~isPaused'
          /\ startTime' = startTime
          /\ totalPausedMsRef' = totalPausedMsRef
          /\ pausedAtRef' = pausedAtRef]_vars

\* C12: the pause start is recorded exactly while the session is paused.
C12_PauseStartIffPaused == (pausedAtRef # NULL) <=> isPaused

\* C13: every sample the sampler stores equals now - start time - the sum
\* of the pause intervals that ended since the session started.
C13_SampleIsActiveTime ==
    lastOp = "tick"
    => elapsedTime = now - startTime - pausedSinceStart

\* C14: from the step that records a pause until the resume, and from a
\* finished session, no step other than a restart (or a new passage)
\* changes the displayed elapsed time.
C14_NoTickWhilePausedOrFinished ==
    [][((isPaused' \/ Finished) /\ lastOp' \notin {"restart", "mount"})
       => elapsedTime' = elapsedTime]_vars

\* A started session has been paused while the clock went on.
C14_Witness ==
    /\ lastOp = "clock"
    /\ isPaused
    /\ isTyping
    /\ startTime # NULL
    /\ now > pausedAtRef

\* C15: once the session has started, no step other than a restart (or a
\* new passage) makes the elapsed time smaller, whatever pauses and resumes
\* lie between two samples.
C15_SamplesNonDecreasing ==
    [][(startTime # NULL /\ lastOp' \notin {"restart", "mount"})
       => elapsedTime' >= elapsedTime]_vars

\* The first sample after a resume, with a sample taken before the pause.
C15_Witness ==
    /\ lastOp = "resume"
    /\ Running
    /\ totalPausedMsRef > 0
    /\ elapsedTime > 0

\* C16: a resume of a paused session whose buffer is complete adds nothing
\* to the paused total, schedules no sampler, and leaves the session
\* finished and not paused.
C16_ResumeWhenCompleteFinishes ==
    [][(isPaused /\ currentIndex >= Len(text)
        /\ lastOp' \in {"pause", "resume"})
       => /\ totalPausedMsRef' = totalPausedMsRef
          /\ ~isPaused'
          /\ ~Running'
          /\ Finished']_vars

\* A complete session was resumed after the clock went on during the pause.
C16_Witness ==
    /\ lastOp = "resume"
    /\ currentIndex >= Len(text)
    /\ hasStarted
    /\ pausedAtRef # NULL
    /\ now > pausedAtRef

\* C17: a space, newline or carriage return stored by an append at a
\* newline position of the passage gets the verdict correct, and so does the
\* newline position at which the typed value continues with one of the
\* three, in a keystroke or in a longer append.
C17_NewlineAcceptsSpace ==
    [][lastOp' = "added"
       => /\ \A p \in 1..Len(text) :
                (p > Len(userInput) /\ p <= Len(userInput')
                 /\ text[p] \in {LF, CR} /\ userInput'[p] \in {" ", LF, CR})
                => charStates'[p] = "correct"
          /\ (Len(userInput) < Len(text)
              /\ text[Len(userInput) + 1] \in {LF, CR}
              /\ lastTyped'[Len(userInput) + 1] \in {" ", LF, CR})
             => charStates'[Len(userInput) + 1] = "correct"]_vars

\* Passage "a\nb" with the value "a b" given in one change.
C17_Witness ==
    /\ lastOp = "added"
    /\ text = <<"a", LF, "b">>
    /\ lastTyped = <<"a", " ", "b">>
    /\ charStates = <<"correct", "correct", "correct">>

\* C18: when the typed value continues at a newline position with a
\* character other than space, newline or carriage return, that position
\* gets the verdict incorrect.
C18_NewlineRejectsOthers ==
    [][(lastOp' = "added"
        /\ Len(userInput) < Len(text)
        /\ text[Len(userInput) + 1] \in {LF, CR}
        /\ lastTyped'[Len(userInput) + 1] \notin {" ", LF, CR})
       => charStates'[Len(userInput) + 1] = "incorrect"]_vars

\* C19: a change that appends one character to the buffer makes the stored
\* buffer exactly one character longer.
C19_OneKeyOnePosition ==
    [][(lastOp' \in {"added", "removed"}
        /\ Len(lastTyped') = Len(userInput) + 1
        /\ SubSeq(lastTyped', 1, Len(userInput)) = userInput)
       => Len(userInput') = Len(userInput) + 1]_vars

FirstDiff(a, b) ==
    CHOOSE d \in 1..Len(a) : a[d] # b[d] /\ \A q \in 1..(d - 1) : a[q] = b[q]

\* C20: after a change to a buffer of the same length and other content,
\* every position from the first differing one on carries the verdict the
\* append rule gives the new character there, and the verdicts before it
\* are unchanged.
C20_SameLengthReplacement ==
    [][(lastOp' = "removed" /\ Len(userInput') = Len(userInput)
        /\ userInput' # userInput)
       => \A p \in 1..Len(text) :
             /\ (p >= FirstDiff(userInput, userInput') /\ p <= Len(userInput'))
                => charStates'[p] = VerdictAt(userInput', p)
             /\ p < FirstDiff(userInput, userInput')
                => charStates'[p] = charStates[p]]_vars

\* C21: a change event carrying the same value as the change event before
\* it leaves verdicts, stored buffer, cursor and phase as they were.
C21_SameValueTwice ==
    [][(lastOp \in {"added", "removed"} /\ lastOp' \in {"added", "removed"}
        /\ lastTyped' = lastTyped)
       => /\ charStates' = charStates
          /\ userInput' = userInput
          /\ isTyping' = isTyping /\ hasStarted' = hasStarted
          /\ isPaused' = isPaused]_vars

\* C22: when an append to a buffer of length n is followed by deletions
\* that bring the buffer back to length n, the verdict array is the one
\* from before the append (positions from n on untouched, positions below
\* n as they were).
C22_AppendThenDeleteRestores ==
    [][(lastOp' = "removed" /\ beforeAppend.n >= 0
        /\ Len(userInput') = beforeAppend.n)
       => charStates' = beforeAppend.verdicts]_vars

\* A buffer with a wrong character in it, appended to and cut back.
C22_Witness ==
    /\ lastOp = "removed"
    /\ beforeAppend.n = currentIndex
    /\ currentIndex > 0
    /\ charStates = beforeAppend.verdicts
    /\ \E p \in 1..currentIndex : charStates[p] = "incorrect"

\* C23: in every reachable state the verdict array has exactly as many
\* entries as the passage has characters.
C23_VerdictArrayLength == Len(charStates) = Len(text)

\* A paste has pushed the buffer past the end of the passage.
C23_Witness ==
    /\ lastOp = "added"
    /\ currentIndex > Len(text)
    /\ Len(charStates) = Len(text)

\* The counts the metrics are stated over: the positions below the cursor
\* that carry the verdict v.
VerdictCount(v) ==
    Cardinality({ p \in DOMAIN charStates :
                    p <= currentIndex /\ charStates[p] = v })

\* C24: whenever the elapsed time is 0, wpm is 0, accuracy is 100 and
\* errors is 0, whatever the verdicts are.
C24_ZeroElapsedMetrics ==
    elapsedTime = 0 => (Wpm = 0 /\ Accuracy = 100 /\ Errors = 0)

\* Right and wrong characters are typed and the elapsed time is still 0.
C24_Witness ==
    /\ elapsedTime = 0
    /\ VerdictCount("correct") > 0
    /\ VerdictCount("incorrect") > 0

\* C25: for a positive elapsed time, wpm is (correct count / 5) divided by
\* the elapsed minutes (elapsed ms / 60000), floored at 0 and rounded; the
\* wrong characters do not enter.
C25_WpmFromCorrectOnly ==
    elapsedTime > 0
    => Wpm = RoundDiv(Max(0, VerdictCount("correct") * 60000),
                      5 * elapsedTime)

\* Thirty right and ten wrong characters after 30 s: 12 words per minute.
C25_Witness ==
    /\ elapsedTime = 30000
    /\ VerdictCount("correct") = 30
    /\ VerdictCount("incorrect") = 10
    /\ Wpm = 12

\* C26: from the claim's own example of 30 s on (so above any small
\* epsilon), cpm is the correct count divided by the elapsed minutes,
\* rounded; 50 correct characters after 30 s give 100.
C26_CpmFromElapsedMinutes ==
    elapsedTime >= 30000
    => Cpm = RoundDiv(VerdictCount("correct") * 60000, elapsedTime)

\* C27: for a positive elapsed time, accuracy is
\* round(100 * correct / (correct + incorrect)) when a position is typed
\* and 100 otherwise.
C27_AccuracyRounded ==
    elapsedTime > 0
    => Accuracy =
         IF VerdictCount("correct") + VerdictCount("incorrect") > 0
         THEN RoundDiv(100 * VerdictCount("correct"),
                       VerdictCount("correct") + VerdictCount("incorrect"))
         ELSE 100

\* Passage "cat" typed as "cbt": accuracy 67.
C27_Witness ==
    /\ text = <<"c", "a", "t">>
    /\ userInput = <<"c", "b", "t">>
    /\ charStates = <<"correct", "incorrect", "correct">>
    /\ elapsedTime > 0
    /\ Accuracy = 67

\* C28: an F8 key press flips the highlight mode and changes neither
\* verdicts, buffer, cursor, phase flags, pause state nor any clock field;
\* and an append made while highlighting is off gives the positions it adds
\* the same verdicts as the comparison rule gives with highlighting on.
C28_HighlightToggleOnlyShows ==
    [][/\ lastOp' = "f8"
          => /\ showMistakes' = ~showMistakes
             /\ UNCHANGED <<text, charStates, userInput, isTyping, hasStarted,
                            isPaused, startTime, elapsedTime, pausedAtRef,
                            totalPausedMsRef, now>>
       /\ (lastOp' = "added" /\ ~showMistakes')
          => \A p \in 1..Len(text) :
                (p > Len(userInput) /\ p <= Len(userInput'))
                => charStates'[p] = VerdictAt(userInput', p)]_vars

\* A wrong character typed after highlighting was switched off.
C28_Witness ==
    /\ lastOp = "added"
    /\ ~showMistakes
    /\ currentIndex > 0
    /\ currentIndex <= Len(text)
    /\ charStates[currentIndex] = "incorrect"

\* The table as the claim words it: the listed code points go to their
\* ASCII forms and every other character, line breaks included, to itself.
ClaimedCanon(c) ==
    CASE c = "U+00A0" -> " "
      [] c \in {"U+2018", "U+2019", "U+2032", "U+02BC"} -> "'"
      [] c \in {"U+201C", "U+201D"} -> "\""
      [] c \in {"U+2013", "U+2014"} -> "-"
      [] OTHER -> c

\* The claim's table with newline and carriage return going to space.
AmendedCanon(c) == IF c \in {LF, CR} THEN " " ELSE ClaimedCanon(c)

\* C29 as stated: for every character an append adds at a position of the
\* passage that holds no line break, the normalizer gives the typed and the
\* passage character the forms of the claim's table, applying it twice
\* changes nothing, and the verdict is correct exactly when the two forms
\* are equal.
C29_NormalizeAsClaimed ==
    [][lastOp' = "added"
       => \A p \in 1..Len(text) :
             (p > Len(userInput) /\ p <= Len(userInput')
              /\ text[p] \notin {LF, CR})
             => LET typed == userInput'[p]
                    typedForm == normalizeCharForCompare(typed)
                    passageForm == normalizeCharForCompare(text[p])
                IN /\ typedForm = ClaimedCanon(typed)
                   /\ passageForm = ClaimedCanon(text[p])
                   /\ normalizeCharForCompare(typedForm) = typedForm
                   /\ normalizeCharForCompare(passageForm) = passageForm
                   /\ (charStates'[p] = "correct")
                      <=> (ClaimedCanon(typed) = ClaimedCanon(text[p]))]_vars

\* C29 (amended): the same with newline and carriage return going to space.
C29_NormalizeAmended ==
    [][lastOp' = "added"
       => \A p \in 1..Len(text) :
             (p > Len(userInput) /\ p <= Len(userInput')
              /\ text[p] \notin {LF, CR})
             => LET typed == userInput'[p]
                    typedForm == normalizeCharForCompare(typed)
                    passageForm == normalizeCharForCompare(text[p])
                IN /\ typedForm = AmendedCanon(typed)
                   /\ passageForm = AmendedCanon(text[p])
                   /\ normalizeCharForCompare(typedForm) = typedForm
                   /\ normalizeCharForCompare(passageForm) = passageForm
                   /\ (charStates'[p] = "correct")
                      <=> (AmendedCanon(typed) = AmendedCanon(text[p]))]_vars

\* A right single quote matched by ', an em dash by -, a space by Enter.
C29_Witness ==
    /\ lastOp = "added"
    /\ text = <<"U+2019", "U+2014", " ">>
    /\ userInput = <<"'", "-", LF>>
    /\ charStates = <<"correct", "correct", "correct">>

\* C30: whenever a server call returns a passage, the passage is not empty:
\* it is the fallback text or has at least 20 characters between its
\* blanks; a call that returns a passage straight from the generation step
\* (the result was empty or too short, or the generation failed for another
\* reason than the API key) and a lookup of an id that is not stored return
\* the fallback text with id -1 and leave the table as it was.
C30_DeliveredPassageNonEmpty ==
    [][\A c \in 1..MaxCalls :
          (calls[c].pc # "idle" /\ calls'[c].pc = "idle"
           /\ returned'.status = "value")
          => /\ Len(returned'.content) > 0
             /\ \/ returned'.content = fallbackText
                \/ TrimmedLength(returned'.content) >= 20
             /\ (\/ calls[c].pc = "generate"
                 \/ calls[c].pc = "getText" /\ calls[c].id \notin 1..StoreLen)
                => /\ returned'.content = fallbackText
                   /\ returned'.id = 0 - 1
                   /\ store' = store]_vars

\* A generation result that was too short has been answered with the
\* fallback text, next to a table that took a row before.
C30_Witness ==
    /\ returned.status = "value"
    /\ returned.cause = "shortGeneration"
    /\ returned.content = fallbackText
    /\ returned.id = 0 - 1
    /\ Len(store.added) > 0

\* C31: in every state where the session has not started, is paused or has
\* its buffer complete, and in the state a restart or a passage change
\* leaves, the sampler of the timer effect is not scheduled; and a tick
\* changes the elapsed time only from a state with the sampler scheduled.
C31_SamplerOnlyWhileRunning ==
    [][/\ (\/ ~hasStarted' \/ isPaused' \/ Len(userInput') >= Len(text')
           \/ lastOp' \in {"restart", "mount"})
          => ~(isTyping' /\ ~isPaused' /\ startTime' # NULL)
       /\ (lastOp' = "tick" /\ elapsedTime' # elapsedTime)
          => (isTyping /\ ~isPaused /\ startTime # NULL
              /\ Len(userInput) < Len(text))]_vars

\* A session that ran for some time and then completed its buffer.
C31_Witness ==
    /\ lastOp = "added"
    /\ currentIndex >= Len(text)
    /\ elapsedTime > 0
    /\ ~SamplerActive(isTyping, isPaused, startTime)

\* The position of the glyph the display treats as active: the cursor, or
\* the last character when the buffer is complete.
ActiveGlyph == Min(currentIndex, Len(text) - 1) + 1

\* The last step was a change event whose commit ran the display's layout
\* effect, and the active position has a glyph.
Positioned ==
    /\ lastOp \in {"added", "removed"}
    /\ scrolledFrom >= 0
    /\ HasGlyph(text, ActiveGlyph)

\* The largest scroll offset of the display.
MaxScrollTop == ScrollHeight(text, geometry) - geometry.clientHeight

\* C32: in every reachable state the scroll offset of the display lies in
\* [0, scrollHeight - clientHeight].
C32_ScrollWithinBounds == 0 <= scrollTop /\ scrollTop <= MaxScrollTop

\* The layout effect scrolled down to the largest offset, short of the
\* offset that would put the active glyph on the second-last line.
C32_Witness ==
    /\ Positioned
    /\ scrollTop > scrolledFrom
    /\ scrollTop = MaxScrollTop
    /\ GlyphTop(text, ActiveGlyph, geometry)
         - (geometry.clientHeight - 2 * geometry.lineHeight) > MaxScrollTop

\* C33: after a cursor move that leaves the top edge of the active glyph
\* above the visible area, the scroll offset equals the top of the glyph.
C33_ScrollsUpToGlyph ==
    (Positioned /\ GlyphTop(text, ActiveGlyph, geometry) < scrolledFrom)
    => scrollTop = GlyphTop(text, ActiveGlyph, geometry)

C35_ElapsedNeverNegative == elapsedTime >= 0

\* C36: in every reachable state, every position below the cursor and
\* inside the passage carries the verdict correct exactly when the stored
\* buffer character there matches the passage character under the
\* comparison rule.
C36_VerdictsDescribeBuffer ==
    \A p \in 1..Len(text) :
        p <= currentIndex
        => (charStates[p] = "correct" <=> VerdictAt(userInput, p) = "correct")

\* C37: once the start time is recorded, no step but a restart or a passage
\* change alters it or returns the session to idle.
C37_StartEpochAssignedOnce ==
    [][(startTime # NULL /\ lastOp' \notin {"restart", "mount"})
       => (startTime' = startTime /\ hasStarted')]_vars

\* The buffer was deleted back to empty and typed into again at a later
\* time than the first keystroke.
C37_Witness ==
    /\ lastOp = "added"
    /\ beforeAppend.n = 0
    /\ startTime # NULL
    /\ now > startTime
    /\ isTyping

\* C38: from a paused state, no step but a restart or a passage change
\* alters the typed buffer or a verdict.
C38_PausePreservesProgress ==
    [][(isPaused /\ lastOp' \notin {"restart", "mount"})
       => (userInput' = userInput /\ charStates' = charStates)]_vars

\* A session with a wrong character in it has been resumed.
C38_Witness ==
    /\ lastOp = "resume"
    /\ ~isPaused
    /\ currentIndex > 0
    /\ \E p \in 1..currentIndex : charStates[p] = "incorrect"

\* C39: under every interleaving of getNewText calls, no bucket of the table
\* holds more than 100 rows.
C39_BucketNeverExceedsLimit ==
    \A wordLength \in allowed : getTextCountByWordLength(wordLength) <= 100

\* C40: once no initial-data fetch is in flight, the passage shown and the
\* choices list are those of the selected word length.
C40_LatestSelectionShown ==
    (lastOp = "fetched" /\ page.fetches = <<>>)
    => /\ text = InitialTextOf(page.wordLength)
       /\ page.textChoices = page.wordLength
====
